---- MODULE Spec2Model ----
(***************************************************************************)
(* Belt balancer design as a mixed-integer program (pyomo_model_1.py) and  *)
(* its nonlinear sibling (sympy_system.py).                                *)
(*                                                                         *)
(* The script is a straight line: derive the traffic values from the three *)
(* counts, build the index sets, build the parameters, declare variables   *)
(* and constraints, hand the model to the solver, print the belts of the   *)
(* solution.  Each of these steps is one action below.  The solver is an   *)
(* external MILP backend: it is modelled as the nondeterministic choice of *)
(* any assignment that satisfies every constraint of the model.            *)
(*                                                                         *)
(* Numbers.  Counts are integers.  The derived traffic values and the      *)
(* parameters f and g are exact rationals <<num, den>> (sympy_system.py    *)
(* computes them exactly; pyomo_model_1.py computes the same quotients in  *)
(* floating point, whose rounding is not modelled).  The solver's real     *)
(* variables (t, v, x, y, xe, tz) are drawn from the grid k/grid, and are  *)
(* stored as the integer k; e, z, n and m are plain integers.              *)
(***************************************************************************)
EXTENDS Integers, Sequences, FiniteSets, TLC

VARIABLES pc, cfg, grid, derived, model, sol, printed

vars == <<pc, cfg, grid, derived, model, sol, printed>>

(***************************************************************************)
(* Bounds of the model.                                                    *)
(***************************************************************************)
\* SpecGen: every count ranges over 0..MaxGen (two-digit member names occur).
MaxGen == 10
\* Spec: the configurations whose route set has at most MaxRoutes routes,
\* each count in 0..MaxRoutes.
MaxRoutes == 10
\* SpecRelax: the configurations with at most MaxRelaxRoutes routes, the
\* real variables on the grid k/RelaxGrid.
MaxRelaxRoutes == 3
RelaxGrid == 2
\* SpecLin: the real variables of one linearized product on the grid k/LinGrid.
LinGrid == 4

(***************************************************************************)
(* Generic helpers.                                                        *)
(***************************************************************************)
Min(a, b) == IF a <= b THEN a ELSE b

Abs(a) == IF a < 0 THEN -a ELSE a

RECURSIVE Gcd(_, _)
Gcd(a, b) == IF b = 0 THEN a ELSE Gcd(b, a % b)

\* Sum of the function fn over the finite set S (Python's sum(...)).
RECURSIVE Sum(_, _)
Sum(fn, S) ==
    IF S = {} THEN 0
    ELSE LET k == CHOOSE k \in S : TRUE
         IN fn[k] + Sum(fn, S \ {k})

\* Exact rationals: <<num, den>> with den > 0, in lowest terms.
RatNorm(n, d) ==
    LET g == Gcd(Abs(n), Abs(d))
        sg == IF d < 0 THEN -1 ELSE 1
    IN <<sg * (n \div g), sg * (d \div g)>>

RatInt(k) == <<k, 1>>

\* a / b for b # 0.
RatDiv(a, b) == RatNorm(a[1] * b[2], a[2] * b[1])

RatAdd(a, b) == RatNorm(a[1] * b[2] + b[1] * a[2], a[2] * b[2])

RatLeq(a, b) == a[1] * b[2] <= b[1] * a[2]

RECURSIVE RatSum(_, _)
RatSum(fn, S) ==
    IF S = {} THEN RatInt(0)
    ELSE LET k == CHOOSE k \in S : TRUE
         IN RatAdd(fn[k], RatSum(fn, S \ {k}))

(***************************************************************************)
(* Member names.  A member such as "s10" is the sequence <<"s","1","0">>.  *)
(***************************************************************************)
DigitChars == <<"0", "1", "2", "3", "4", "5", "6", "7", "8", "9">>

IsDigit(ch) == \E d \in 1..10 : DigitChars[d] = ch

DigitVal(ch) == (CHOOSE d \in 1..10 : DigitChars[d] = ch) - 1

\* The decimal text of k >= 0, as f"{k}" writes it.
RECURSIVE str_int(_)
str_int(k) ==
    IF k < 10 THEN <<DigitChars[k + 1]>>
    ELSE str_int(k \div 10) \o <<DigitChars[(k % 10) + 1]>>

\* int(text) of a non-empty digit sequence.
RECURSIVE int_str(_)
int_str(text) ==
    IF Len(text) = 1 THEN DigitVal(text[1])
    ELSE 10 * int_str(SubSeq(text, 1, Len(text) - 1)) + DigitVal(text[Len(text)])

\* member.rstrip(string.digits)
RECURSIVE rstrip_digits(_)
rstrip_digits(text) ==
    IF text = <<>> \/ ~IsDigit(text[Len(text)]) THEN text
    ELSE rstrip_digits(SubSeq(text, 1, Len(text) - 1))

\* member.lstrip(string.ascii_letters)
RECURSIVE lstrip_letters(_)
lstrip_letters(text) ==
    IF text = <<>> \/ IsDigit(text[1]) THEN text
    ELSE lstrip_letters(Tail(text))

\* range(size) is empty for size <= 0.
init_set(letter, size) == { <<letter>> \o str_int(x + 1) : x \in 0..(size - 1) }

get_letter(member) == rstrip_digits(member)

get_int(member) == int_str(lstrip_letters(member))

(***************************************************************************)
(* Derived traffic values (module level of the script).                    *)
(***************************************************************************)
DeriveRaises(c) == c.inbounds = 0 \/ c.outbounds = 0

\* Faulty variant: the outbound traffic is not shared out among the cargo types.
DerivedValues_unshared(c) ==
    LET cargos == c.inbounds
        throughput == Min(c.inbounds, c.outbounds)
        v_in == RatDiv(RatInt(throughput), RatInt(c.inbounds))
        v_out == RatDiv(RatInt(throughput), RatInt(c.outbounds))
        t_in == RatDiv(v_in, RatInt(1))
        t_out == v_out
    IN [cargos |-> cargos, throughput |-> throughput, v_in |-> v_in,
        v_out |-> v_out, t_in |-> t_in, t_out |-> t_out]

DerivedValues(c) ==
    LET cargos == c.inbounds
        throughput == Min(c.inbounds, c.outbounds)
        v_in == RatDiv(RatInt(throughput), RatInt(c.inbounds))
        v_out == RatDiv(RatInt(throughput), RatInt(c.outbounds))
        t_in == RatDiv(v_in, RatInt(1))
        t_out == RatDiv(v_out, RatInt(cargos))
    IN [cargos |-> cargos, throughput |-> throughput, v_in |-> v_in,
        v_out |-> v_out, t_in |-> t_in, t_out |-> t_out]

(***************************************************************************)
(* Index sets.                                                             *)
(***************************************************************************)
\* Faulty variant: the self-loop test compares the letters and forgets the numbers.
B_filter_letters_only(p, q) ==
    IF get_letter(p) = <<"i">> /\ get_letter(q) = <<"j">> THEN FALSE
    ELSE IF get_letter(p) = get_letter(q) /\ get_letter(q) = <<"s">> THEN FALSE
    ELSE TRUE

\* Faulty variant: the bypass test is missing.
B_filter_bypass_allowed(p, q) ==
    IF get_letter(p) = get_letter(q) /\ get_letter(q) = <<"s">>
       /\ get_int(p) = get_int(q) THEN FALSE
    ELSE TRUE

B_filter(p, q) ==
    IF get_letter(p) = <<"i">> /\ get_letter(q) = <<"j">> THEN FALSE
    ELSE IF get_letter(p) = get_letter(q) /\ get_letter(q) = <<"s">>
            /\ get_int(p) = get_int(q) THEN FALSE
    ELSE TRUE

RouteSet(P, Q) == { b \in P \X Q : B_filter(b[1], b[2]) }

SplitterOutputs(S, Q, B) == (S \X Q) \cap B

\* The routes of sympy_system.py: the whole product, unfiltered.
sympy_B(P, Q) == { <<p, q>> : p \in P, q \in Q }

IndexSets(c, d) ==
    LET I == init_set("i", c.inbounds)
        J == init_set("j", c.outbounds)
        S == init_set("s", c.splitters)
        C == init_set("c", d.cargos)
        P == I \cup S
        Q == S \cup J
        B == RouteSet(P, Q)
        W == SplitterOutputs(S, Q, B)
    IN [I |-> I, J |-> J, S |-> S, C |-> C, P |-> P, Q |-> Q, B |-> B,
        IxC |-> I \X C, JxC |-> J \X C, SxC |-> S \X C,
        BxC |-> { <<b[1], b[2], c1>> : b \in B, c1 \in C },
        W |-> W,
        WxC |-> { <<b[1], b[2], c1>> : b \in W, c1 \in C },
        f |-> <<>>, g |-> <<>>]

(***************************************************************************)
(* Parameters.                                                             *)
(***************************************************************************)
f_init(d, i, c) == IF get_int(i) = get_int(c) THEN d.t_in ELSE RatInt(0)

PercentFraction(r) == RatLeq(RatInt(0), r) /\ RatLeq(r, RatInt(1))

u_t == 1

u_x == 2

Params(m, d) ==
    [m EXCEPT !.f = [ic \in m.IxC |-> f_init(d, ic[1], ic[2])],
              !.g = [jc \in m.JxC |-> d.t_out]]

(***************************************************************************)
(* Decision variables.  An assignment is a record of the ten variable      *)
(* families of the model, each a function on its index set.                *)
(***************************************************************************)
RoutesFrom(p) == { b \in model.B : b[1] = p }

RoutesInto(q) == { b \in model.B : b[2] = q }

ZeroOn(D) == [d \in D |-> 0]

\* The assignment with decision values e, z, t, xe, tz in which the defined
\* quantities v, n, m, x, y take the value of their defining sum.
Assignment(e, z, t, xe, tz) ==
    [e |-> e,
     t |-> t,
     v |-> [b \in model.B |->
              Sum([c \in model.C |-> t[<<b[1], b[2], c>>]], model.C)],
     n |-> [s \in model.S |-> Sum([b \in RoutesInto(s) |-> e[b]], RoutesInto(s))],
     m |-> [s \in model.S |-> Sum([b \in RoutesFrom(s) |-> e[b]], RoutesFrom(s))],
     x |-> [sc \in model.SxC |->
              Sum([b \in RoutesInto(sc[1]) |-> t[<<b[1], b[2], sc[2]>>]],
                  RoutesInto(sc[1]))],
     y |-> [sc \in model.SxC |->
              Sum([b \in RoutesFrom(sc[1]) |-> t[<<b[1], b[2], sc[2]>>]],
                  RoutesFrom(sc[1]))],
     z |-> z,
     xe |-> xe,
     tz |-> tz]

\* Variable domains: Binary, PercentFraction, NonNegativeIntegers,
\* NonNegativeReals.
Domains(a) ==
    /\ \A b \in model.B : a.e[b] \in {0, 1}
    /\ \A k \in model.BxC : 0 <= a.t[k] /\ a.t[k] <= grid
    /\ \A b \in model.B : 0 <= a.v[b] /\ a.v[b] <= grid
    /\ \A s \in model.S : a.n[s] >= 0 /\ a.m[s] >= 0
    /\ \A k \in model.SxC : a.x[k] >= 0 /\ a.y[k] >= 0
    /\ \A s \in model.S : a.z[s] \in {0, 1}
    /\ \A k \in model.WxC : a.xe[k] >= 0
    /\ \A k \in model.WxC : 0 <= a.tz[k] /\ a.tz[k] <= grid

(***************************************************************************)
(* Constraint rules, one operator per rule of the script.                  *)
(***************************************************************************)
define_volume_rule(a, p, q) ==
    a.v[<<p, q>>] = Sum([c \in model.C |-> a.t[<<p, q, c>>]], model.C)

define_num_inputs_rule(a, s) ==
    a.n[s] = Sum([b \in RoutesInto(s) |-> a.e[b]], RoutesInto(s))

define_num_outputs_rule(a, s) ==
    a.m[s] = Sum([b \in RoutesFrom(s) |-> a.e[b]], RoutesFrom(s))

define_inflow_rule(a, s, c) ==
    a.x[<<s, c>>] =
        Sum([b \in RoutesInto(s) |-> a.t[<<b[1], b[2], c>>]], RoutesInto(s))

define_outflow_rule(a, s, c) ==
    a.y[<<s, c>>] =
        Sum([b \in RoutesFrom(s) |-> a.t[<<b[1], b[2], c>>]], RoutesFrom(s))

force_xe_1_rule(a, s, q, c) == a.xe[<<s, q, c>>] <= u_x * grid * a.e[<<s, q>>]

force_xe_2_rule(a, s, q, c) == a.xe[<<s, q, c>>] <= a.x[<<s, c>>]

\* Faulty variant: the binary enters the big-M term with the wrong sense.
force_xe_3_rule_wrong_sense(a, s, q, c) ==
    a.xe[<<s, q, c>>] >= a.x[<<s, c>>] - u_x * grid * a.e[<<s, q>>]

force_xe_3_rule(a, s, q, c) ==
    a.xe[<<s, q, c>>] >= a.x[<<s, c>>] - u_x * grid * (1 - a.e[<<s, q>>])

force_tz_1_rule(a, s, q, c) == a.tz[<<s, q, c>>] <= u_t * grid * a.z[s]

force_tz_2_rule(a, s, q, c) == a.tz[<<s, q, c>>] <= a.t[<<s, q, c>>]

force_tz_3_rule(a, s, q, c) ==
    a.tz[<<s, q, c>>] >= a.t[<<s, q, c>>] - u_t * grid * (1 - a.z[s])

connect_inbounds_rule(a, i) ==
    Sum([b \in RoutesFrom(i) |-> a.e[b]], RoutesFrom(i)) = 1

connect_outbounds_rule(a, j) ==
    Sum([b \in RoutesInto(j) |-> a.e[b]], RoutesInto(j)) = 1

\* sum of t == f[i, c], with t on the grid and f an exact rational.
consume_inbounds_rule(a, i, c) ==
    Sum([b \in RoutesFrom(i) |-> a.t[<<b[1], b[2], c>>]], RoutesFrom(i))
        * model.f[<<i, c>>][2] = model.f[<<i, c>>][1] * grid

produce_outbounds_rule(a, j, c) ==
    Sum([b \in RoutesInto(j) |-> a.t[<<b[1], b[2], c>>]], RoutesInto(j))
        * model.g[<<j, c>>][2] = model.g[<<j, c>>][1] * grid

\* Faulty variant: the capacity does not depend on the route being built.
respect_capacity_rule_always_open(a, p, q) == a.v[<<p, q>>] <= grid

respect_capacity_rule(a, p, q) == a.v[<<p, q>>] <= grid * a.e[<<p, q>>]

splitters_conserve_rule(a, s, c) == a.x[<<s, c>>] = a.y[<<s, c>>]

min_inputs_rule(a, s) == a.n[s] >= a.z[s]

\* Faulty variant: one input too many.
max_inputs_rule_three(a, s) == a.n[s] <= 3

max_inputs_rule(a, s) == a.n[s] <= 2

min_outputs_rule(a, s) == a.m[s] >= 2 * a.z[s]

\* Faulty variant: the split indicator does not raise the output limit.
max_outputs_rule_single(a, s) == a.m[s] <= 1

max_outputs_rule(a, s) == a.m[s] <= 1 + a.z[s]

\* Faulty variant: the rule is skipped (Constraint.Skip), nothing links xe, t and tz.
split_evenly_rule_skipped(a, s, q, c) == a.xe[<<s, q, c>>] >= 0

split_evenly_rule(a, s, q, c) ==
    a.xe[<<s, q, c>>] = a.t[<<s, q, c>>] + a.tz[<<s, q, c>>]

\* The objective: the sum of the volumes of all routes (grid units).
simultaneous_volume_rule(a) == Sum([b \in model.B |-> a.v[b]], model.B)

\* The relationship the linearization stands for, as sympy_system.py states
\* it: t == e * x / (1 + z).
sympy_split_evenly(e, x, z, t) == t * (1 + z) = e * x

\* The whole system of sympy_system.py over its own route set, for an
\* assignment of e (routes), t (routes x cargo) and z (splitters).
sympy_system(e, t, z) ==
    LET P == model.P
        Q == model.Q
        C == model.C
        v(p, q) == Sum([c \in C |-> t[<<p, q, c>>]], C)
        n(s) == Sum([p \in P |-> e[<<p, s>>]], P)
        m(s) == Sum([q \in Q |-> e[<<s, q>>]], Q)
        x(s, c) == Sum([p \in P |-> t[<<p, s, c>>]], P)
        y(s, c) == Sum([q \in Q |-> t[<<s, q, c>>]], Q)
    IN /\ \A b \in sympy_B(P, Q) : e[b] \in {0, 1} /\ v(b[1], b[2]) <= grid
       /\ \A b \in sympy_B(P, Q) : \A c \in C :
              0 <= t[<<b[1], b[2], c>>] /\ t[<<b[1], b[2], c>>] <= grid
       /\ \A s \in model.S : z[s] \in {0, 1}
       /\ \A i \in model.I : Sum([q \in Q |-> e[<<i, q>>]], Q) = 1
       /\ \A j \in model.J : Sum([p \in P |-> e[<<p, j>>]], P) = 1
       /\ \A k \in model.IxC :
              Sum([q \in Q |-> t[<<k[1], q, k[2]>>]], Q) * model.f[k][2]
                 = model.f[k][1] * grid
       /\ \A k \in model.JxC :
              Sum([p \in P |-> t[<<p, k[1], k[2]>>]], P) * model.g[k][2]
                 = model.g[k][1] * grid
       /\ \A b \in sympy_B(P, Q) : v(b[1], b[2]) <= grid * e[b]
       /\ \A k \in model.SxC : x(k[1], k[2]) = y(k[1], k[2])
       /\ \A s \in model.S :
              n(s) >= z[s] /\ n(s) <= 2 /\ m(s) >= 2 * z[s] /\ m(s) <= 1 + z[s]
       /\ \A s \in model.S : \A q \in Q : \A c \in C :
              sympy_split_evenly(e[<<s, q>>], x(s, c), z[s], t[<<s, q, c>>])

(***************************************************************************)
(* Constraint families attached to the model, grouped by the variables     *)
(* they read.                                                              *)
(***************************************************************************)
Definitions(a) ==
    /\ \A b \in model.B : define_volume_rule(a, b[1], b[2])
    /\ \A s \in model.S : define_num_inputs_rule(a, s)
    /\ \A s \in model.S : define_num_outputs_rule(a, s)
    /\ \A k \in model.SxC : define_inflow_rule(a, k[1], k[2])
    /\ \A k \in model.SxC : define_outflow_rule(a, k[1], k[2])

Connectedness(a) ==
    /\ \A i \in model.I : connect_inbounds_rule(a, i)
    /\ \A j \in model.J : connect_outbounds_rule(a, j)

Degrees(a) ==
    /\ \A s \in model.S : min_inputs_rule(a, s)
    /\ \A s \in model.S : max_inputs_rule(a, s)
    /\ \A s \in model.S : min_outputs_rule(a, s)
    /\ \A s \in model.S : max_outputs_rule(a, s)

Traffic(a) ==
    /\ \A k \in model.IxC : consume_inbounds_rule(a, k[1], k[2])
    /\ \A k \in model.JxC : produce_outbounds_rule(a, k[1], k[2])
    /\ \A b \in model.B : respect_capacity_rule(a, b[1], b[2])
    /\ \A k \in model.SxC : splitters_conserve_rule(a, k[1], k[2])

Linearization(a) ==
    \A k \in model.WxC :
        /\ force_xe_1_rule(a, k[1], k[2], k[3])
        /\ force_xe_2_rule(a, k[1], k[2], k[3])
        /\ force_xe_3_rule(a, k[1], k[2], k[3])
        /\ force_tz_1_rule(a, k[1], k[2], k[3])
        /\ force_tz_2_rule(a, k[1], k[2], k[3])
        /\ force_tz_3_rule(a, k[1], k[2], k[3])
        /\ split_evenly_rule(a, k[1], k[2], k[3])

\* Every constraint of the model.
Feasible(a) ==
    /\ Domains(a)
    /\ Definitions(a)
    /\ Connectedness(a)
    /\ Degrees(a)
    /\ Traffic(a)
    /\ Linearization(a)

(***************************************************************************)
(* The solver.  It may return any assignment that satisfies Feasible.      *)
(* FeasibleAssignments enumerates them on the grid.  The enumeration is    *)
(* staged so that it ends: a stage fixes some variables and keeps only the *)
(* choices that satisfy the rules reading nothing but the variables fixed  *)
(* so far.  A rule violated by a partial choice is violated by each of its *)
(* extensions, so no feasible assignment is lost; the defined quantities   *)
(* v, n, m, x, y are bound by equations and take the value of their sums.  *)
(* The result is filtered by Feasible, the complete rule set.              *)
(***************************************************************************)
EmptyFn == [d \in {} |-> 0]

\* All functions h on DOMAIN al with h[d] \in al[d].
RECURSIVE Pi(_)
Pi(al) ==
    IF DOMAIN al = {} THEN {EmptyFn}
    ELSE LET k == CHOOSE k \in DOMAIN al : TRUE
             rest == Pi([d \in (DOMAIN al) \ {k} |-> al[d]])
         IN { [d \in DOMAIN al |-> IF d = k THEN val ELSE h[d]] :
                val \in al[k], h \in rest }

RECURSIVE SeqOf(_)
SeqOf(S) ==
    IF S = {} THEN <<>>
    ELSE LET k == CHOOSE k \in S : TRUE IN <<k>> \o SeqOf(S \ {k})

RECURSIVE Flatten(_)
Flatten(seqs) ==
    IF seqs = <<>> THEN <<>> ELSE Head(seqs) \o Flatten(Tail(seqs))

\* The routes in the order their traffic is fixed: those leaving an inbound
\* belt, belt by belt; those entering an outbound belt, belt by belt; then
\* the routes between splitters.
RouteOrder ==
    LET fromI == [k \in 1..Len(SeqOf(model.I)) |-> SeqOf(RoutesFrom(SeqOf(model.I)[k]))]
        intoJ == [k \in 1..Len(SeqOf(model.J)) |-> SeqOf(RoutesInto(SeqOf(model.J)[k]))]
        inner == SeqOf({ b \in model.B : b[1] \in model.S /\ b[2] \in model.S })
    IN Flatten(fromI) \o Flatten(intoJ) \o inner

Partial(e, z, t) == Assignment(e, z, t, ZeroOn(model.WxC), ZeroOn(model.WxC))

\* Stage 1: which routes are built.
EStage ==
    { e \in [model.B -> {0, 1}] :
        LET a == Partial(e, ZeroOn(model.S), ZeroOn(model.BxC))
        IN /\ Connectedness(a)
           /\ \A s \in model.S : max_inputs_rule(a, s) }

\* Stage 2: which splitters split.
ZStage(e) ==
    { z \in [model.S -> {0, 1}] : Degrees(Partial(e, z, ZeroOn(model.BxC))) }

\* The rules of a node whose routes all have their traffic fixed.
NodeRules(a, node, done) ==
    /\ (node \in model.I /\ RoutesFrom(node) \subseteq done)
          => \A c \in model.C : consume_inbounds_rule(a, node, c)
    /\ (node \in model.J /\ RoutesInto(node) \subseteq done)
          => \A c \in model.C : produce_outbounds_rule(a, node, c)
    /\ (node \in model.S /\ (RoutesFrom(node) \cup RoutesInto(node)) \subseteq done)
          => \A c \in model.C : splitters_conserve_rule(a, node, c)

\* The traffic function that is tv on route b and zero elsewhere.
OnRoute(b, tv) ==
    [idx \in model.BxC |-> IF idx[1] = b[1] /\ idx[2] = b[2] THEN tv[idx[3]] ELSE 0]

\* The traffic vectors route b can carry: its volume is a fraction and
\* respects the capacity of the route.  Both rules read route b alone.
RouteVectors(e, z, b) ==
    { tv \in [model.C -> 0..grid] :
        LET a == Partial(e, z, OnRoute(b, tv))
        IN a.v[b] <= grid /\ respect_capacity_rule(a, b[1], b[2]) }

\* Stage 3: the traffic, route by route.  ts holds the traffic functions
\* that are fixed on the first k-1 routes of the order and zero elsewhere.
RECURSIVE TStage(_, _, _, _, _)
TStage(e, z, order, k, ts) ==
    IF k > Len(order) THEN ts
    ELSE LET b == order[k]
             done == { order[h] : h \in 1..k }
             ext == { [idx \in model.BxC |->
                         IF idx[1] = b[1] /\ idx[2] = b[2] THEN tv[idx[3]]
                         ELSE t[idx]] :
                      t \in ts, tv \in RouteVectors(e, z, b) }
             ok == { t \in ext :
                       LET a == Partial(e, z, t)
                       IN NodeRules(a, b[1], done) /\ NodeRules(a, b[2], done) }
         IN TStage(e, z, order, k + 1, ok)

\* Stage 4: the auxiliaries xe and tz, index by index.
AuxPairs(a0, k) ==
    { pr \in (0..(u_x * grid)) \X (0..grid) :
        LET a == [a0 EXCEPT !.xe = [d \in model.WxC |-> pr[1]],
                            !.tz = [d \in model.WxC |-> pr[2]]]
        IN /\ force_xe_1_rule(a, k[1], k[2], k[3])
           /\ force_xe_2_rule(a, k[1], k[2], k[3])
           /\ force_xe_3_rule(a, k[1], k[2], k[3])
           /\ force_tz_1_rule(a, k[1], k[2], k[3])
           /\ force_tz_2_rule(a, k[1], k[2], k[3])
           /\ force_tz_3_rule(a, k[1], k[2], k[3])
           /\ split_evenly_rule(a, k[1], k[2], k[3]) }

AuxStage(e, z, t) ==
    LET a0 == Partial(e, z, t)
        prs == Pi([k \in model.WxC |-> AuxPairs(a0, k)])
    IN { [a0 EXCEPT !.xe = [d \in model.WxC |-> pr[d][1]],
                    !.tz = [d \in model.WxC |-> pr[d][2]]] : pr \in prs }

Candidates ==
    UNION { UNION { UNION { AuxStage(e, z, t) :
                            t \in TStage(e, z, RouteOrder, 1, {ZeroOn(model.BxC)}) } :
                    z \in ZStage(e) } :
            e \in EStage }

FeasibleAssignments == { a \in Candidates : Feasible(a) }

\* The routes the result extractor reports: e > 0.5.
Built(a) == { b \in model.B : 2 * a.e[b] > 1 }

(***************************************************************************)
(* The script, step by step.                                               *)
(***************************************************************************)
NoModel == <<>>

Counts(hi) == [inbounds : 0..hi, outbounds : 0..hi, splitters : 0..hi]

\* Lines 17-23: a zero count divides by zero before anything is built.
Derive ==
    /\ pc = "start"
    /\ ~DeriveRaises(cfg)
    /\ derived' = DerivedValues(cfg)
    /\ pc' = "derived"
    /\ UNCHANGED <<cfg, grid, model, sol, printed>>

DeriveFail ==
    /\ pc = "start"
    /\ DeriveRaises(cfg)
    /\ pc' = "ZeroDivisionError"
    /\ UNCHANGED <<cfg, grid, derived, model, sol, printed>>

BuildSets ==
    /\ pc = "derived"
    /\ model' = IndexSets(cfg, derived)
    /\ pc' = "sets"
    /\ UNCHANGED <<cfg, grid, derived, sol, printed>>

BuildParams ==
    /\ pc = "sets"
    /\ \A ic \in model.IxC : PercentFraction(f_init(derived, ic[1], ic[2]))
    /\ model' = Params(model, derived)
    /\ pc' = "params"
    /\ UNCHANGED <<cfg, grid, derived, sol, printed>>

\* Line 393: the solver returns an assignment that satisfies the model.
Solve ==
    /\ pc = "params"
    /\ \E a \in FeasibleAssignments : sol' = a
    /\ pc' = "solved"
    /\ UNCHANGED <<cfg, grid, derived, model, printed>>

\* Line 393: the solver finds the model infeasible.
SolveInfeasible ==
    /\ pc = "params"
    /\ FeasibleAssignments = {}
    /\ pc' = "infeasible"
    /\ UNCHANGED <<cfg, grid, derived, model, sol, printed>>

\* Lines 410-416: print the belts of the solution.
Extract ==
    /\ pc = "solved"
    /\ printed' = { <<b[1], b[2], sol.v[b]>> : b \in Built(sol) }
    /\ pc' = "printed"
    /\ UNCHANGED <<cfg, grid, derived, model, sol>>

\* The grid on which f, g and the halves a splitter makes of them lie.
GridFor(c) == IF DeriveRaises(c) THEN 1 ELSE 2 * c.outbounds * c.inbounds

NumRoutes(c) ==
    LET I == init_set("i", c.inbounds)
        J == init_set("j", c.outbounds)
        S == init_set("s", c.splitters)
    IN Cardinality(RouteSet(I \cup S, S \cup J))

SolveConfigs == { c \in Counts(MaxRoutes) : NumRoutes(c) <= MaxRoutes }

Init ==
    /\ pc = "start"
    /\ cfg \in SolveConfigs
    /\ grid = GridFor(cfg)
    /\ derived = <<>>
    /\ model = NoModel
    /\ sol = <<>>
    /\ printed = {}

Next ==
    \/ Derive
    \/ DeriveFail
    \/ BuildSets
    \/ BuildParams
    \/ Solve
    \/ SolveInfeasible
    \/ Extract

Spec == Init /\ [][Next]_vars

InitGen ==
    /\ pc = "start"
    /\ cfg \in Counts(MaxGen)
    /\ grid = 1
    /\ derived = <<>>
    /\ model = NoModel
    /\ sol = <<>>
    /\ printed = {}

NextGen == Derive \/ DeriveFail \/ BuildSets \/ BuildParams

SpecGen == InitGen /\ [][NextGen]_vars

(***************************************************************************)
(* The relaxed system: the variable domains with the volume, fan-in and    *)
(* inflow definitions, the capacity rule and the input limit, the          *)
(* linearization left out.  The variables these rules do not read (m, y,   *)
(* xe, tz) stay at their defined value or at zero.                         *)
(***************************************************************************)
RelaxedRules(a) ==
    /\ Domains(a)
    /\ \A b \in model.B : define_volume_rule(a, b[1], b[2])
    /\ \A s \in model.S : define_num_inputs_rule(a, s)
    /\ \A k \in model.SxC : define_inflow_rule(a, k[1], k[2])
    /\ \A b \in model.B : respect_capacity_rule(a, b[1], b[2])
    /\ \A s \in model.S : max_inputs_rule(a, s)

RelaxedTraffic(e, z) ==
    { [idx \in model.BxC |-> tvs[<<idx[1], idx[2]>>][idx[3]]] :
        tvs \in Pi([b \in model.B |-> RouteVectors(e, z, b)]) }

RelaxedAssignments ==
    { a \in UNION { UNION { { Partial(e, z, t) : t \in RelaxedTraffic(e, z) } :
                            z \in [model.S -> {0, 1}] } :
                    e \in [model.B -> {0, 1}] } :
        RelaxedRules(a) }

AssignRelaxed ==
    /\ pc = "params"
    /\ \E a \in RelaxedAssignments : sol' = a
    /\ pc' = "relaxed"
    /\ UNCHANGED <<cfg, grid, derived, model, printed>>

RelaxConfigs ==
    { c \in Counts(MaxRelaxRoutes) :
        ~DeriveRaises(c) /\ NumRoutes(c) <= MaxRelaxRoutes }

InitRelax ==
    /\ pc = "start"
    /\ cfg \in RelaxConfigs
    /\ grid = RelaxGrid
    /\ derived = <<>>
    /\ model = NoModel
    /\ sol = <<>>
    /\ printed = {}

NextRelax == Derive \/ BuildSets \/ BuildParams \/ AssignRelaxed

SpecRelax == InitRelax /\ [][NextRelax]_vars

(***************************************************************************)
(* One linearized product on its own: the rules force_xe_1..3,             *)
(* force_tz_1..3 and split_evenly for a single splitter-output route and   *)
(* cargo, with e, z, x and t given and xe, tz to be found.                 *)
(***************************************************************************)
Member(letter, k) == <<letter>> \o str_int(k)

LinS == Member("s", 1)

LinQ == Member("j", 1)

LinC == Member("c", 1)

LinAssignment(e, z, x, t, xe, tz) ==
    [e |-> (<<LinS, LinQ>> :> e),
     z |-> (LinS :> z),
     x |-> (<<LinS, LinC>> :> x),
     t |-> (<<LinS, LinQ, LinC>> :> t),
     xe |-> (<<LinS, LinQ, LinC>> :> xe),
     tz |-> (<<LinS, LinQ, LinC>> :> tz)]

LinRules(a) ==
    /\ force_xe_1_rule(a, LinS, LinQ, LinC)
    /\ force_xe_2_rule(a, LinS, LinQ, LinC)
    /\ force_xe_3_rule(a, LinS, LinQ, LinC)
    /\ force_tz_1_rule(a, LinS, LinQ, LinC)
    /\ force_tz_2_rule(a, LinS, LinQ, LinC)
    /\ force_tz_3_rule(a, LinS, LinQ, LinC)
    /\ split_evenly_rule(a, LinS, LinQ, LinC)

\* xe is a non-negative real (drawn here up to one unit above u_x), tz a
\* fraction.
LinAux == (0..((u_x + 1) * grid)) \X (0..grid)

LinWith(a, pr) ==
    [a EXCEPT !.xe = (<<LinS, LinQ, LinC>> :> pr[1]),
              !.tz = (<<LinS, LinQ, LinC>> :> pr[2])]

Linearize ==
    /\ pc = "lin"
    /\ \E pr \in LinAux : LinRules(LinWith(sol, pr)) /\ sol' = LinWith(sol, pr)
    /\ pc' = "linearized"
    /\ UNCHANGED <<cfg, grid, derived, model, printed>>

LinearizeNone ==
    /\ pc = "lin"
    /\ \A pr \in LinAux : ~LinRules(LinWith(sol, pr))
    /\ pc' = "cut_off"
    /\ UNCHANGED <<cfg, grid, derived, model, sol, printed>>

InitLin ==
    /\ pc = "lin"
    /\ cfg = [inbounds |-> 1, outbounds |-> 1, splitters |-> 1]
    /\ grid = LinGrid
    /\ derived = <<>>
    /\ model = NoModel
    /\ \E e \in {0, 1}, z \in {0, 1}, x \in 0..(u_x * LinGrid), t \in 0..(u_t * LinGrid) :
          sol = LinAssignment(e, z, x, t, 0, 0)
    /\ printed = {}

NextLin == Linearize \/ LinearizeNone

SpecLin == InitLin /\ [][NextLin]_vars

(***************************************************************************)
(* Properties.                                                             *)
(***************************************************************************)
Objective(a) == simultaneous_volume_rule(a)

Optimal == { a \in FeasibleAssignments :
               \A b \in FeasibleAssignments : Objective(a) <= Objective(b) }

i1 == Member("i", 1)
i2 == Member("i", 2)
j1 == Member("j", 1)
j2 == Member("j", 2)
s1 == Member("s", 1)

\* C1: the route set B is P x Q without the pairs (inbound, outbound) and
\* without the pairs (s, s) of one splitter, and W is the set of the routes
\* of B that leave a splitter.
C1_RouteSetExact ==
    pc \in {"sets", "params"} =>
        /\ model.P = model.I \cup model.S
        /\ model.Q = model.S \cup model.J
        /\ model.B = { b \in model.P \X model.Q :
                         /\ ~(b[1] \in model.I /\ b[2] \in model.J)
                         /\ ~(b[1] \in model.S /\ b[2] = b[1]) }
        /\ model.W = { b \in model.B : b[1] \in model.S }

C1_Witness ==
    /\ pc = "sets"
    /\ cfg.splitters = 10 /\ cfg.inbounds >= 1 /\ cfg.outbounds >= 1
    /\ <<Member("s", 1), Member("s", 10)>> \in model.B
    /\ <<Member("s", 10), Member("s", 10)>> \notin model.B

\* C2: for binary e and z, 0 <= x <= u_x and 0 <= t <= u_t, values of xe and
\* tz satisfying force_xe_1..3, force_tz_1..3 and split_evenly exist exactly
\* when t = e * x / (1 + z).
C2_LinearizationExact ==
    LET e == sol.e[<<LinS, LinQ>>]
        z == sol.z[LinS]
        x == sol.x[<<LinS, LinC>>]
        t == sol.t[<<LinS, LinQ, LinC>>]
    IN /\ pc = "linearized" =>
            /\ sympy_split_evenly(e, x, z, t)
            /\ (e = 0 => t = 0)
            /\ (e = 1 /\ z = 0 => t = x)
            /\ (e = 1 /\ z = 1 => 2 * t = x)
       /\ pc = "cut_off" => ~sympy_split_evenly(e, x, z, t)

C2_Witness ==
    /\ pc = "linearized"
    /\ sol.e[<<LinS, LinQ>>] = 1 /\ sol.z[LinS] = 1
    /\ sol.x[<<LinS, LinC>>] = 2 /\ sol.t[<<LinS, LinQ, LinC>>] = 1
    /\ sol.xe[<<LinS, LinQ, LinC>>] = 2 /\ sol.tz[<<LinS, LinQ, LinC>>] = 1

\* C3 as stated: in every feasible assignment every splitter has one or two
\* built inputs, and exactly one built output when z = 0 and exactly two
\* when z = 1.
C3_DegreesAsStated ==
    pc = "solved" =>
        \A s \in model.S :
            /\ 1 <= sol.n[s] /\ sol.n[s] <= 2
            /\ (sol.z[s] = 0 => sol.m[s] = 1)
            /\ (sol.z[s] = 1 => sol.m[s] = 2)

\* C3 amended: in every feasible assignment every splitter has at most two
\* built inputs and at least one when z = 1, exactly two built outputs when
\* z = 1 and at most one when z = 0.
C3_DegreesAmended ==
    pc = "solved" =>
        \A s \in model.S :
            /\ sol.n[s] = Cardinality({ b \in Built(sol) : b[2] = s })
            /\ sol.m[s] = Cardinality({ b \in Built(sol) : b[1] = s })
            /\ sol.z[s] <= sol.n[s] /\ sol.n[s] <= 2
            /\ (sol.z[s] = 0 => sol.m[s] \in {0, 1})
            /\ (sol.z[s] = 1 => sol.m[s] = 2)

C3_Witness ==
    /\ pc = "solved"
    /\ \E s \in model.S : sol.n[s] = 0 /\ sol.m[s] = 0 /\ sol.z[s] = 0
    /\ \E s \in model.S : sol.n[s] = 1 /\ sol.m[s] = 2 /\ sol.z[s] = 1

\* C4: in every feasible assignment, a splitter with z = 1 has two built
\* outputs and each carries half of the inflow of every cargo; the single
\* built output of a splitter with z = 0 and m = 1 carries the whole inflow
\* of every cargo; an output route that is not built carries nothing.
C4_EvenSplit ==
    pc = "solved" =>
        \A s \in model.S :
            /\ sol.z[s] = 1 =>
                 /\ sol.m[s] = 2
                 /\ \A b \in RoutesFrom(s) \cap Built(sol) : \A c \in model.C :
                        2 * sol.t[<<s, b[2], c>>] = sol.x[<<s, c>>]
            /\ (sol.z[s] = 0 /\ sol.m[s] = 1) =>
                 \A b \in RoutesFrom(s) \cap Built(sol) : \A c \in model.C :
                     sol.t[<<s, b[2], c>>] = sol.x[<<s, c>>]
            /\ \A b \in RoutesFrom(s) \ Built(sol) : \A c \in model.C :
                   sol.t[<<s, b[2], c>>] = 0

C4_Witness ==
    /\ pc = "solved"
    /\ \E s \in model.S : \E c \in model.C :
          sol.z[s] = 1 /\ sol.x[<<s, c>>] > 0
    /\ \E s \in model.S : \E c \in model.C :
          sol.z[s] = 0 /\ sol.m[s] = 1 /\ sol.x[<<s, c>>] > 0

\* C5: for positive counts, the inbound supply of every cargo equals the
\* outbound demand for it, and every f[i,c] and g[j,c] lies in [0,1].
C5_TrafficConserved ==
    pc = "params" =>
        /\ \A c \in model.C :
              RatSum([i \in model.I |-> model.f[<<i, c>>]], model.I)
                 = RatSum([j \in model.J |-> model.g[<<j, c>>]], model.J)
        /\ \A k \in model.IxC :
              /\ PercentFraction(model.f[k])
              /\ model.f[k] = IF get_int(k[1]) = get_int(k[2])
                              THEN RatNorm(Min(cfg.inbounds, cfg.outbounds), cfg.inbounds)
                              ELSE RatInt(0)
        /\ \A k \in model.JxC :
              /\ PercentFraction(model.g[k])
              /\ model.g[k] = RatNorm(Min(cfg.inbounds, cfg.outbounds),
                                      cfg.outbounds * cfg.inbounds)

C5_Witness ==
    /\ pc = "params"
    /\ cfg.inbounds = 3 /\ cfg.outbounds = 2
    /\ model.f[<<Member("i", 3), Member("c", 3)>>] = <<2, 3>>
    /\ model.g[<<Member("j", 2), Member("c", 1)>>] = <<1, 3>>

ScenarioA == cfg = [inbounds |-> 1, outbounds |-> 1, splitters |-> 0]

ScenarioA1 == cfg = [inbounds |-> 1, outbounds |-> 1, splitters |-> 1]

ScenarioB == cfg.inbounds = 2 /\ cfg.outbounds = 2 /\ cfg.splitters >= 1

ScenarioBSolution(a) ==
    /\ Built(a) = {<<i1, s1>>, <<i2, s1>>, <<s1, j1>>, <<s1, j2>>}
    /\ a.z[s1] = 1
    /\ \A s \in model.S \ {s1} : a.n[s] = 0 /\ a.m[s] = 0 /\ a.z[s] = 0
    /\ \A q \in {j1, j2} : \A c \in model.C : 2 * a.t[<<s1, q, c>>] = grid

\* C7: the model for 2 inbound belts, 2 outbound belts and at least one
\* splitter has an optimal assignment that uses splitter s1 alone, with
\* z[s1] = 1 and the routes i1 -> s1, i2 -> s1, s1 -> j1, s1 -> j2, each
\* output carrying 0.5 of both cargo types; no feasible assignment has a
\* smaller objective.
C7_ScenarioB ==
    (ScenarioB /\ pc = "params") =>
        \E a \in FeasibleAssignments :
            /\ ScenarioBSolution(a)
            /\ \A b \in FeasibleAssignments : Objective(a) <= Objective(b)

C7_Witness ==
    /\ ScenarioB /\ cfg.splitters = 2
    /\ pc = "solved"
    /\ ScenarioBSolution(sol)
    /\ Objective(sol) = 4 * grid

\* C8: generation started with a count that is not positive ends in a
\* ConfigurationError, builds nothing and ends in no other failure.
C8_NonPositiveRejected ==
    (cfg.inbounds <= 0 \/ cfg.outbounds <= 0 \/ cfg.splitters <= 0) =>
        pc \in {"start", "ConfigurationError"}

\* C9: the nonlinear system and the linearized model have the same route
\* set, and an assignment of e, t and z satisfies the nonlinear system
\* exactly when it extends to a feasible assignment of the linearized model.
C9_SameProblem ==
    pc = "params" =>
        LET Bs == sympy_B(model.P, model.Q)
            BsxC == { <<b[1], b[2], c>> : b \in Bs, c \in model.C }
        IN /\ Bs = model.B
           /\ \A e \in [Bs -> {0, 1}] : \A z \in [model.S -> {0, 1}] :
                 \A t \in [BsxC -> 0..grid] :
                    sympy_system(e, t, z) <=>
                       \E a \in FeasibleAssignments :
                           a.e = e /\ a.t = t /\ a.z = z

\* C10: under the variable domains, the volume, fan-in and inflow
\* definitions, the capacity rule and n <= 2, every splitter and cargo has
\* x <= n <= 2 = u_x and every route and cargo has t <= e <= 1 = u_t, so a
\* route that is not built carries nothing.
C10_BigMValid ==
    pc = "relaxed" =>
        /\ \A k \in model.SxC :
              /\ sol.x[k] <= sol.n[k[1]] * grid
              /\ sol.n[k[1]] <= 2
              /\ sol.x[k] <= u_x * grid
        /\ \A k \in model.BxC :
              /\ sol.t[k] <= sol.e[<<k[1], k[2]>>] * grid
              /\ sol.e[<<k[1], k[2]>>] <= 1
              /\ sol.t[k] <= u_t * grid
              /\ (sol.e[<<k[1], k[2]>>] = 0 => sol.t[k] = 0)

C10_Witness ==
    /\ pc = "relaxed"
    /\ \E k \in model.SxC : sol.n[k[1]] = 2 /\ sol.x[k] = u_x * grid
    /\ \E k \in model.BxC : sol.e[<<k[1], k[2]>>] = 1 /\ sol.t[k] = u_t * grid

====
